---- MODULE Spec2Model ----
(***************************************************************************)
(* A model of fsmate's state machine runtime (src/src/fsmate/_state.py):   *)
(* StateDescriptor, StateTransition, StateDispatcher and their storages.   *)
(*                                                                         *)
(* Six specifications share the operators below.                           *)
(*   SpecDecl  the definition of an owner class: the descriptor is         *)
(*             constructed, transitions are declared, callbacks are        *)
(*             registered, the class is created.                           *)
(*   SpecOverload  a dispatched method is declared on a descriptor and     *)
(*             handlers are registered for its states.                     *)
(*   SpecUnbound  a descriptor constructed outside a class body: it is     *)
(*             used, and transitions are declared on it, before and after  *)
(*             it is given its name.                                       *)
(*   SpecRace  two threads invoke transitions on one instance.             *)
(*   SpecShared  one thread uses two instances of one owner class.         *)
(*   Spec      the life of instances of a finished owner class: transition *)
(*             invocations (statement by statement, with the callbacks     *)
(*             they fire), dispatched methods, state reads and direct      *)
(*             assignments.  Its initial states are owner classes built    *)
(*             with the very operators SpecDecl's actions apply.           *)
(***************************************************************************)
EXTENDS Integers, Sequences, FiniteSets, TLC

(***************************************************************************)
(* Values                                                                  *)
(***************************************************************************)
None == "None"                      \* Python's None
Unset == "<unset>"                  \* an attribute the instance does not have

\* examples/garage_door.py: the members of the machine's Enum
DoorState == {"closed", "opening", "opened", "closing"}
\* tests/unit/test_state.py: members of another Enum (WrongState)
WrongState == {"D"}
AnyState == DoorState \cup WrongState

\* user functions registered as callbacks, and dispatch handlers
Callbacks == {"f", "g"}
Handlers == {"F", "G", "H"}
\* what a dispatched method is called with, and what a handler may return
Args == {"a1", "a2"}
Values == {"v1", "v2"}

Instances == {"o1", "o2"}
Threads == {"t1", "t2"}

\* how many of the callbacks called during one call of the library the model
\* lets invoke a transition themselves
MaxReentries == 2

Range(s) == {s[n] : n \in DOMAIN s}
Last(s) == s[Len(s)]
Front(s) == SubSeq(s, 1, Len(s) - 1)

(***************************************************************************)
(* Enum membership: `x in EnumClass` is False for a member of another Enum *)
(***************************************************************************)
InAllStates(x) == x \in DoorState

(***************************************************************************)
(* StateDescriptor.__init__                                                *)
(***************************************************************************)
NoStorage == None
AttrStorage == "AttributeStateStorage"     \* an external StateStorage object

\* `initial_state is None == state_storage is None` is a chained comparison:
\* (initial_state is None) and (None == state_storage) and (state_storage is None)
InitRejects(initial_state, state_storage) ==
    /\ initial_state = None
    /\ None = state_storage
    /\ state_storage = None

Descriptor(initial_state, state_storage) ==
    [ initial_state |-> initial_state,
      state_storage |-> state_storage,
      attr_name |-> None,
      transitions |-> << >>,
      enter_state_callbacks |-> [s \in AnyState |-> {}],
      exit_state_callbacks |-> [s \in AnyState |-> {}] ]

\* the descriptor that does not exist (before construction, or after a
\* constructor that raised)
NoDescriptor == Descriptor(None, None)

StateDescriptor(initial_state, state_storage) ==
    IF InitRejects(initial_state, state_storage)
    THEN [raised |-> "ValueError", d |-> NoDescriptor]
    ELSE [raised |-> None, d |-> Descriptor(initial_state, state_storage)]

\* __set_name__
set_name(d, attr_name) == [d EXCEPT !.attr_name = attr_name]

(***************************************************************************)
(* State storage.  An instance holds two attributes: `priv`, the           *)
(* '_' + attr_name attribute of the default storage, and `custom`, the     *)
(* attribute an external AttributeStateStorage reads and writes.           *)
(***************************************************************************)
\* AttributeStateStorage.get_state / set_state
attr_get_state(inst) == inst.custom
attr_set_state(inst, state) == [inst EXCEPT !.custom = state]

Ok(v) == [raised |-> None, value |-> v]
Raise(e) == [raised |-> e, value |-> None]

\* a faulty _get_state: an unbound descriptor answers with its initial state
get_state_defaults(d, inst) ==
    IF d.state_storage # NoStorage
    THEN Ok(attr_get_state(inst))
    ELSE Ok(IF inst.priv = Unset THEN d.initial_state ELSE inst.priv)

\* StateDescriptor._get_state
get_state(d, inst) ==
    IF d.state_storage # NoStorage
    THEN Ok(attr_get_state(inst))
    ELSE IF d.attr_name = None
         THEN Raise("ValueError")
         ELSE Ok(IF inst.priv = Unset THEN d.initial_state ELSE inst.priv)

\* a faulty write: nothing is stored before the callbacks are called
write_state_skipped(d, inst, state) ==
    IF d.state_storage = NoStorage /\ d.attr_name = None
    THEN [raised |-> "ValueError", inst |-> inst]
    ELSE [raised |-> None, inst |-> inst]

\* the write of StateDescriptor._force_set_state (lines 253-262)
write_state(d, inst, state) ==
    IF d.state_storage # NoStorage
    THEN [raised |-> None, inst |-> attr_set_state(inst, state)]
    ELSE IF d.attr_name = None
         THEN [raised |-> "ValueError", inst |-> inst]
         ELSE [raised |-> None, inst |-> [inst EXCEPT !.priv = state]]

(***************************************************************************)
(* StateDescriptor.transition.  `source` is what the caller passed: one    *)
(* Enum member ([coll |-> FALSE, elems |-> <<s>>]) or a collection of them.*)
(***************************************************************************)
One(s) == [coll |-> FALSE, elems |-> <<s>>]
Coll(ss) == [coll |-> TRUE, elems |-> ss]

\* `if not isinstance(source, Collection): source = [source]`
SourceList(source) == source.elems

NewTransition(source, dest) ==
    [source |-> SourceList(source), dest |-> dest, callbacks |-> << >>]

\* a faulty transition(): only the first source is checked
transition_checks_first(d, source, dest) ==
    IF ~InAllStates(dest) \/ ~InAllStates(SourceList(source)[1])
    THEN [raised |-> "ValueError", d |-> d]
    ELSE [raised |-> None,
          d |-> [d EXCEPT !.transitions = Append(@, NewTransition(source, dest))]]

\* a faulty transition(): the states are not checked against the Enum
transition_unchecked(d, source, dest) ==
    [raised |-> None,
     d |-> [d EXCEPT !.transitions = Append(@, NewTransition(source, dest))]]

transition(d, source, dest) ==
    IF ~InAllStates(dest)
    THEN [raised |-> "ValueError", d |-> d]
    ELSE IF \E n \in DOMAIN SourceList(source) : ~InAllStates(SourceList(source)[n])
         THEN [raised |-> "ValueError", d |-> d]
         ELSE [raised |-> None,
               d |-> [d EXCEPT !.transitions = Append(@, NewTransition(source, dest))]]

(***************************************************************************)
(* Callback registration.  `shape` is how the registering function was     *)
(* called: "bare" (@state.on_x, the function itself is the only argument)  *)
(* or "args" (@state.on_x(targets...), possibly with no target at all).    *)
(* A transition is named by its place in the descriptor's list; 0 names a  *)
(* StateTransition object that this descriptor did not create.             *)
(***************************************************************************)
ForeignTransition == 0

\* a faulty _register_callback: a function the transition has is not added
RECURSIVE register_callbacks_once(_, _, _)
register_callbacks_once(ts, refs, func) ==
    IF refs = << >>
    THEN ts
    ELSE register_callbacks_once(
             [ts EXCEPT ![Head(refs)].callbacks =
                  IF func \in Range(@) THEN @ ELSE Append(@, func)],
             Tail(refs), func)

\* StateTransition._register_callback, once per occurrence in `refs`
RECURSIVE register_callbacks(_, _, _)
register_callbacks(ts, refs, func) ==
    IF refs = << >>
    THEN ts
    ELSE register_callbacks(
             [ts EXCEPT ![Head(refs)].callbacks = Append(@, func)],
             Tail(refs), func)

AllTransitions(d) == [n \in 1..Len(d.transitions) |-> n]

\* a faulty on_transition: the callback is registered on the transitions
\* listed before the one that is not the descriptor's
on_transition_partial(d, shape, refs, func) ==
    IF shape = "bare" \/ refs = << >>
    THEN [raised |-> None,
          d |-> [d EXCEPT !.transitions =
                     register_callbacks(@, AllTransitions(d), func)]]
    ELSE LET bad == {n \in DOMAIN refs : refs[n] \notin 1..Len(d.transitions)}
             first == IF bad = {} THEN Len(refs) + 1
                      ELSE CHOOSE n \in bad : \A m \in bad : n <= m
         IN  [raised |-> IF bad = {} THEN None ELSE "ValueError",
              d |-> [d EXCEPT !.transitions =
                         register_callbacks(@, SubSeq(refs, 1, first - 1), func)]]

on_transition(d, shape, refs, func) ==
    IF shape = "bare" \/ refs = << >>
    THEN [raised |-> None,
          d |-> [d EXCEPT !.transitions =
                     register_callbacks(@, AllTransitions(d), func)]]
    ELSE IF \E n \in DOMAIN refs : refs[n] \notin 1..Len(d.transitions)
         THEN [raised |-> "ValueError", d |-> d]
         ELSE [raised |-> None,
               d |-> [d EXCEPT !.transitions = register_callbacks(@, refs, func)]]

\* the wrapper of on_state_exited / on_state_entered: table[state].add(func)
add_callback(table, states, func) ==
    [s \in DOMAIN table |->
        IF s \in Range(states) THEN table[s] \cup {func} ELSE table[s]]

\* tuple(self._all_states), in definition order
AllStatesTuple == <<"closed", "opening", "opened", "closing">>

on_state_exited(d, shape, states, func) ==
    IF shape = "bare"
    THEN [raised |-> None,
          d |-> [d EXCEPT !.exit_state_callbacks =
                     add_callback(@, AllStatesTuple, func)]]
    ELSE IF \E n \in DOMAIN states : ~InAllStates(states[n])
         THEN [raised |-> "ValueError", d |-> d]
         ELSE [raised |-> None,
               d |-> [d EXCEPT !.exit_state_callbacks =
                          add_callback(@, states, func)]]

on_state_entered(d, shape, states, func) ==
    IF shape = "bare"
    THEN [raised |-> None,
          d |-> [d EXCEPT !.enter_state_callbacks =
                     add_callback(@, AllStatesTuple, func)]]
    ELSE IF \E n \in DOMAIN states : ~InAllStates(states[n])
         THEN [raised |-> "ValueError", d |-> d]
         ELSE [raised |-> None,
               d |-> [d EXCEPT !.enter_state_callbacks =
                          add_callback(@, states, func)]]

(***************************************************************************)
(* StateDispatcher                                                         *)
(***************************************************************************)
\* no dispatched method declared
NoDispatcher == [fallback |-> None, dispatch_table |-> [s \in AnyState |-> None]]

\* StateDescriptor.dispatch / StateDispatcher.__init__
Dispatcher(fallback) ==
    [fallback |-> fallback, dispatch_table |-> [s \in AnyState |-> None]]

\* a faulty register(): a state that has a handler is given the new one
RECURSIVE register_overwrites(_, _, _)
register_overwrites(dp, func, states) ==
    IF states = << >>
    THEN [raised |-> None, dp |-> dp]
    ELSE IF ~InAllStates(Head(states))
         THEN [raised |-> "ValueError", dp |-> dp]
         ELSE register_overwrites(
                  [dp EXCEPT !.dispatch_table[Head(states)] = func],
                  func, Tail(states))

\* StateDispatcher.register: the loop stops at the first state it rejects
RECURSIVE register(_, _, _)
register(dp, func, states) ==
    IF states = << >>
    THEN [raised |-> None, dp |-> dp]
    ELSE IF ~InAllStates(Head(states))
         THEN [raised |-> "ValueError", dp |-> dp]
         ELSE IF dp.dispatch_table[Head(states)] # None
              THEN [raised |-> "ValueError", dp |-> dp]
              ELSE register([dp EXCEPT !.dispatch_table[Head(states)] = func],
                            func, Tail(states))

\* a faulty _get_dispatched_func: the table is not consulted
get_fallback(dp, state) == dp.fallback

\* StateDispatcher._get_dispatched_func: dict.get(state, fallback)
get_dispatched_func(dp, state) ==
    IF dp.dispatch_table[state] # None
    THEN dp.dispatch_table[state]
    ELSE dp.fallback

(***************************************************************************)
(* State                                                                   *)
(***************************************************************************)
VARIABLES
    desc,        \* the StateDescriptor of the owner class
    disp,        \* the StateDispatcher of the class's dispatched method
    instances,   \* the instances of the owner class that exist
    threads,     \* the threads that call into them
    store,       \* per instance: its attributes (priv, custom)
    stack,       \* per thread: the library calls in progress, innermost last
    op,          \* per thread: the call its caller made last, and how it ended
    log          \* what the calls in progress (or the last one) did, in order

vars == <<desc, disp, instances, threads, store, stack, op, log>>

\* a call in progress: _transition (lines 82-89, with _force_set_state,
\* lines 251-266, inlined) or StateDispatcher.dispatch (lines 135-141)
Frame(kind, cid, tr, inst, pc, state, func, arg) ==
    [ kind |-> kind,           \* "transition" | "dispatch"
      cid |-> cid,             \* which invocation of the caller's call this is
      tr |-> tr,               \* the transition (its place in the list)
      inst |-> inst,
      pc |-> pc,
      state |-> state,         \* `state` of _transition (line 83)
      current_state |-> None,  \* `current_state` of _force_set_state (line 252)
      pend |-> {},             \* callbacks the running set loop has yet to call
      idx |-> 1,               \* the next of self._callbacks (line 88)
      func |-> func,           \* dispatch: the resolved handler
      arg |-> arg ]

NoOp ==
    [ name |-> "none", inst |-> None, tr |-> 0, arg |-> None,
      status |-> "returned", exc |-> None, value |-> None, ncalls |-> 0,
      pre |-> [store |-> << >>, desc |-> NoDescriptor, disp |-> NoDispatcher] ]

\* the call `name` a caller starts now
NewOp(name, inst, tr, arg) ==
    [ name |-> name, inst |-> inst, tr |-> tr, arg |-> arg,
      status |-> "running", exc |-> None, value |-> None, ncalls |-> 0,
      pre |-> [store |-> store, desc |-> desc, disp |-> disp] ]

Returned(o, v) == [o EXCEPT !.status = "returned", !.value = v]
Raised(o, e) == [o EXCEPT !.status = "raised", !.exc = e]

\* one entry of the log: a write of the state, a call of a callback or handler
\* with the arguments (inst, source, dest) or (inst, arg) it received, the
\* state it could read from the instance when called, and what it went on to
\* do; or a return
Event(th, ev, fr, cb, source, dest, beh, val) ==
    [ th |-> th, ev |-> ev, cid |-> fr.cid, depth |-> Len(stack[th]),
      tr |-> fr.tr, cb |-> cb,
      inst |-> fr.inst, source |-> source, dest |-> dest, arg |-> fr.arg,
      seen |-> get_state(desc, store[fr.inst]).value, beh |-> beh, val |-> val ]

Idle(th) == stack[th] = << >>
Top(th) == Last(stack[th])
\* the log without what thread th's previous call left in it
Others(th) == SelectSeq(log, LAMBDA e : e.th # th)

\* how many callbacks of thread th's call have invoked a transition
Reentries(th) == Len(SelectSeq(log, LAMBDA e : e.th = th /\ e.beh = "call"))

\* the state a caller reads from instance i now (None when the read raises)
StateOf(i) == get_state(desc, store[i]).value

(***************************************************************************)
(* The loops of a transition: over on_exit[current_state] (line 263), over *)
(* on_enter[state] (line 265), then over self._callbacks (line 88).  A     *)
(* loop over nothing takes no step.                                        *)
(***************************************************************************)
\* a faulty line 263: the old state is read after the write
exit_callbacks_after_write(d, current_state, state) == d.exit_state_callbacks[state]

\* a faulty line 265: nothing is called when the state does not change
enter_callbacks_unless_same(d, current_state, state) ==
    IF current_state = state THEN {} ELSE d.enter_state_callbacks[state]

\* line 263: self._exit_state_callbacks[current_state], and
\* line 265: self._enter_state_callbacks[state]
exit_callbacks(d, current_state, state) == d.exit_state_callbacks[current_state]
enter_callbacks(d, current_state, state) == d.enter_state_callbacks[state]

SettleTcb(fr) ==
    IF fr.idx > Len(desc.transitions[fr.tr].callbacks)
    THEN [fr EXCEPT !.pc = "return"]
    ELSE [fr EXCEPT !.pc = "tcb"]

SettleEnter(fr) ==
    IF fr.pend = {}
    THEN SettleTcb([fr EXCEPT !.idx = 1])
    ELSE [fr EXCEPT !.pc = "enter"]

SettleExit(fr) ==
    IF fr.pend = {}
    THEN SettleEnter([fr EXCEPT !.pend =
             enter_callbacks(desc, fr.current_state, desc.transitions[fr.tr].dest)])
    ELSE [fr EXCEPT !.pc = "exit"]

\* the frame after the callback it has just taken from its loop
AfterExit(fr, cb) == SettleExit([fr EXCEPT !.pend = @ \ {cb}])
AfterEnter(fr, cb) == SettleEnter([fr EXCEPT !.pend = @ \ {cb}])
AfterTcb(fr) == SettleTcb([fr EXCEPT !.idx = @ + 1])

(***************************************************************************)
(* Steps shared by the actions                                             *)
(***************************************************************************)
\* an exception leaves every call in progress on the thread: the library
\* catches nothing
Propagate(th, o, e, lg) ==
    /\ stack' = [stack EXCEPT ![th] = << >>]
    /\ op' = [op EXCEPT ![th] = Raised(o, e)]
    /\ log' = lg

\* faulty variants of line 84: anything but the destination passes; only the first
\* source passes
PossibleUnlessThere(t, state) == state # t.dest
PossibleFirstSource(t, state) == state = t.source[1]
\* line 84 left out: no check at all
PossibleAlways(t, state) == TRUE

\* line 84: `state in self._source`
Possible(t, state) == state \in Range(t.source)

\* _transition, lines 83-85, called on instance i above the frames stk
EnterTransition(th, i, k, stk, o, lg) ==
    LET r == get_state(desc, store[i])
        t == desc.transitions[k]
    IN  IF r.raised # None
        THEN Propagate(th, o, r.raised, lg)
        ELSE IF ~Possible(t, r.value)
             THEN Propagate(th, o, "ImpossibleTransitionError", lg)
             ELSE /\ stack' = [stack EXCEPT ![th] = Append(stk,
                        Frame("transition", o.ncalls + 1, k, i, "force_set",
                              r.value, None, None))]
                  /\ op' = [op EXCEPT ![th] = [o EXCEPT !.ncalls = @ + 1]]
                  /\ log' = lg

\* what a called callback does: it returns, it raises, or it invokes
\* transition k on the instance it was given
Behaviours == {"ret", "raise", "call"}

Called(th, fr, beh, k, lg) ==
    LET stk == [stack[th] EXCEPT ![Len(stack[th])] = fr]
    IN  CASE beh = "ret" ->
               /\ stack' = [stack EXCEPT ![th] = stk]
               /\ log' = lg
               /\ UNCHANGED op
          [] beh = "raise" -> Propagate(th, op[th], "CallbackError", lg)
          [] beh = "call" ->
               /\ Reentries(th) < MaxReentries
               /\ EnterTransition(th, fr.inst, k, stk, op[th], lg)

\* the transitions a callback may invoke; one choice when it invokes none
Callee(beh) == IF beh = "call" THEN 1..Len(desc.transitions) ELSE {0}

(***************************************************************************)
(* Invoking a transition: obj.t()                                          *)
(***************************************************************************)
Invoke(th, i, k) ==
    /\ Idle(th)
    /\ k \in 1..Len(desc.transitions)
    /\ EnterTransition(th, i, k, << >>, NewOp("transition", i, k, None), Others(th))
    /\ UNCHANGED <<desc, disp, instances, threads, store>>

\* _force_set_state, line 252: current_state = self._get_state(instance)
ForceSetRead(th) ==
    /\ ~Idle(th)
    /\ Top(th).pc = "force_set"
    /\ LET fr == Top(th)
           r == get_state(desc, store[fr.inst])
       IN  IF r.raised # None
           THEN Propagate(th, op[th], r.raised, log)
           ELSE /\ stack' = [stack EXCEPT ![th][Len(stack[th])] =
                        [fr EXCEPT !.pc = "write", !.current_state = r.value]]
                /\ UNCHANGED <<op, log>>
    /\ UNCHANGED <<desc, disp, instances, threads, store>>

\* a faulty write: the state is kept in the descriptor, which the instances
\* share
setattr_shared(st, i, inst) == [j \in DOMAIN st |-> inst]

\* setattr(instance, ...) (lines 258-262, and line 33): the attribute of that
\* instance is set
setattr(st, i, inst) == [st EXCEPT ![i] = inst]

\* _force_set_state, lines 253-262: the write; the loops over the callbacks
\* follow it
ForceSetWrite(th) ==
    /\ ~Idle(th)
    /\ Top(th).pc = "write"
    /\ LET fr == Top(th)
           dest == desc.transitions[fr.tr].dest
           w == write_state(desc, store[fr.inst], dest)
       IN  IF w.raised # None
           THEN /\ Propagate(th, op[th], w.raised, log)
                /\ UNCHANGED store
           ELSE /\ store' = setattr(store, fr.inst, w.inst)
                /\ stack' = [stack EXCEPT ![th][Len(stack[th])] =
                        SettleExit([fr EXCEPT !.pend =
                            exit_callbacks(desc, fr.current_state, dest)])]
                /\ log' = Append(log,
                        Event(th, "write", fr, None, fr.current_state, dest, None, None))
                /\ UNCHANGED op
    /\ UNCHANGED <<desc, disp, instances, threads>>

\* line 264: callback(instance, current_state, state)
FireExit(th) ==
    /\ ~Idle(th)
    /\ Top(th).pc = "exit"
    /\ \E cb \in Top(th).pend, beh \in Behaviours : \E k \in Callee(beh) :
         LET fr == Top(th)
         IN  Called(th, AfterExit(fr, cb), beh, k,
                 Append(log, Event(th, "exit", fr, cb, fr.current_state,
                                   desc.transitions[fr.tr].dest, beh, None)))
    /\ UNCHANGED <<desc, disp, instances, threads, store>>

\* line 266: callback(instance, current_state, state)
FireEnter(th) ==
    /\ ~Idle(th)
    /\ Top(th).pc = "enter"
    /\ \E cb \in Top(th).pend, beh \in Behaviours : \E k \in Callee(beh) :
         LET fr == Top(th)
         IN  Called(th, AfterEnter(fr, cb), beh, k,
                 Append(log, Event(th, "enter", fr, cb, fr.current_state,
                                   desc.transitions[fr.tr].dest, beh, None)))
    /\ UNCHANGED <<desc, disp, instances, threads, store>>

\* line 89: callback(instance, state, self._dest), in the order of the list
FireTransitionCallback(th) ==
    /\ ~Idle(th)
    /\ Top(th).pc = "tcb"
    /\ \E beh \in Behaviours : \E k \in Callee(beh) :
         LET fr == Top(th)
             t == desc.transitions[fr.tr]
         IN  Called(th, AfterTcb(fr), beh, k,
                 Append(log, Event(th, "transition", fr, t.callbacks[fr.idx],
                                   fr.state, t.dest, beh, None)))
    /\ UNCHANGED <<desc, disp, instances, threads, store>>

\* _transition returns: to the callback or handler that invoked it, or to the
\* caller
Return(th) ==
    /\ ~Idle(th)
    /\ Top(th).pc = "return"
    /\ stack' = [stack EXCEPT ![th] = Front(@)]
    /\ log' = Append(log, Event(th, "return", Top(th), None, None, None, None, None))
    /\ op' = IF Len(stack[th]) = 1
             THEN [op EXCEPT ![th] = Returned(@, None)]
             ELSE op
    /\ UNCHANGED <<desc, disp, instances, threads, store>>

(***************************************************************************)
(* A dispatched method: obj.method(arg)                                    *)
(***************************************************************************)
\* what dispatch returns when its handler returned v (line 141)
DispatchResult(v) == v

\* StateDispatcher.dispatch, lines 138-141, up to the call of the handler
Dispatch(th, i, a) ==
    /\ Idle(th)
    /\ disp.fallback # None
    /\ LET r == get_state(desc, store[i])
           o == NewOp("dispatch", i, 0, a)
           func == get_dispatched_func(disp, r.value)
           fr == Frame("dispatch", 0, 0, i, "handler", r.value, func, a)
       IN  IF r.raised # None
           THEN Propagate(th, o, r.raised, Others(th))
           ELSE /\ stack' = [stack EXCEPT ![th] = <<fr>>]
                /\ op' = [op EXCEPT ![th] = o]
                /\ log' = Append(Others(th),
                        Event(th, "handler", fr, func, None, None, None, None))
    /\ UNCHANGED <<desc, disp, instances, threads, store>>

\* the handler invokes a transition on its instance (garage_door.py, 47-53)
HandlerCall(th, k) ==
    /\ ~Idle(th)
    /\ Top(th).pc = "handler"
    /\ k \in 1..Len(desc.transitions)
    /\ EnterTransition(th, Top(th).inst, k,
           [stack[th] EXCEPT ![Len(stack[th])].pc = "handler_called"], op[th], log)
    /\ UNCHANGED <<desc, disp, instances, threads, store>>

\* the handler returns v, and dispatch returns
HandlerReturn(th, v) ==
    /\ ~Idle(th)
    /\ Top(th).kind = "dispatch"
    /\ stack' = [stack EXCEPT ![th] = << >>]
    /\ op' = [op EXCEPT ![th] = Returned(@, DispatchResult(v))]
    /\ log' = Append(log, Event(th, "handler_return", Top(th), Top(th).func,
                                None, None, None, v))
    /\ UNCHANGED <<desc, disp, instances, threads, store>>

HandlerRaise(th) ==
    /\ ~Idle(th)
    /\ Top(th).kind = "dispatch"
    /\ Propagate(th, op[th], "HandlerError", log)
    /\ UNCHANGED <<desc, disp, instances, threads, store>>

(***************************************************************************)
(* Reading and assigning the state attribute                               *)
(***************************************************************************)
\* StateDescriptor.__get__ on an instance: obj.state
GetState(th, i) ==
    /\ Idle(th)
    /\ LET r == get_state(desc, store[i])
           o == NewOp("get", i, 0, None)
       IN  op' = [op EXCEPT ![th] =
                    IF r.raised # None THEN Raised(o, r.raised) ELSE Returned(o, r.value)]
    /\ log' = Others(th)
    /\ UNCHANGED <<desc, disp, instances, threads, store, stack>>

\* a faulty __set__: the value is stored
set_attribute_stores(inst, value) == [inst EXCEPT !.priv = value]

\* what obj.state = value leaves in the instance
set_attribute(inst, value) == inst

\* StateDescriptor.__set__: obj.state = value
SetState(th, i, value) ==
    /\ Idle(th)
    /\ store' = [store EXCEPT ![i] = set_attribute(@, value)]
    /\ op' = [op EXCEPT ![th] = Raised(NewOp("set", i, 0, value), "AttributeError")]
    /\ log' = Others(th)
    /\ UNCHANGED <<desc, disp, instances, threads, stack>>

(***************************************************************************)
(* Owner classes.  Each is what executing its class body leaves: the       *)
(* descriptor is constructed, the declarations run in order, and creating  *)
(* the class calls __set_name__.                                           *)
(***************************************************************************)
\* examples/garage_door.py, lines 19-53
GarageDoorState ==
    LET d0 == StateDescriptor("closed", NoStorage).d
        d1 == transition(d0, One("closed"), "opening").d      \* start_opening
        d2 == transition(d1, One("opening"), "opened").d      \* finish_opening
        d3 == transition(d2, One("opened"), "closing").d      \* start_closing
        d4 == transition(d3, One("closing"), "closed").d      \* finish_closing
        d5 == on_transition(d4, "args", <<1>>, "f").d
        d6 == on_transition(d5, "args", <<2>>, "g").d
        d7 == on_transition(d6, "args", <<3>>, "f").d
        d8 == on_transition(d7, "args", <<4>>, "g").d
    IN  set_name(d8, "state")

GarageDoorPushButton ==
    LET p0 == Dispatcher("F")                                 \* push_button
        p1 == register(p0, "G", <<"closed">>).dp              \* push_button_closed
        p2 == register(p1, "H", <<"opened">>).dp              \* push_button_opened
    IN  p2

GarageDoor == [desc |-> GarageDoorState, disp |-> GarageDoorPushButton]

\* a door with enter, exit and transition callbacks and with transitions from
\* several sources, declared the way tests/unit/test_state.py declares Stub
HookedDoorState ==
    LET d0 == StateDescriptor("closed", NoStorage).d
        d1 == transition(d0, One("closed"), "opening").d
        d2 == transition(d1, Coll(<<"opening", "opened">>), "opened").d
        d3 == transition(d2, Coll(<<"opened", "closing">>), "closed").d
        d4 == on_state_exited(d3, "args", <<"closed">>, "f").d
        d5 == on_state_exited(d4, "args", <<"closed">>, "g").d
        d6 == on_state_entered(d5, "args", <<"opening">>, "g").d
        d7 == on_transition(d6, "args", <<1>>, "f").d
        d8 == on_transition(d7, "args", <<1>>, "g").d
        d9 == on_transition(d8, "args", <<2, 2>>, "g").d
    IN  set_name(d9, "state")

HookedDoor == [desc |-> HookedDoorState, disp |-> NoDispatcher]

\* a door whose state lives in an attribute of its own, through an external
\* AttributeStateStorage (tests/unit/test_state.py, lines 38-40)
CustomDoorState ==
    LET d0 == StateDescriptor(None, AttrStorage).d
        d1 == transition(d0, One("closed"), "opening").d
        d2 == transition(d1, Coll(<<"opening", "closing">>), "closed").d
        d3 == on_state_entered(d2, "bare", << >>, "f").d
        d4 == on_transition(d3, "bare", << >>, "g").d
    IN  set_name(d4, "state")

CustomDoor == [desc |-> CustomDoorState, disp |-> Dispatcher("F")]

\* a door with a transition whose sources include its destination, and with
\* callbacks on leaving and on entering that state; f is registered twice on
\* leaving opened, and g twice on the first transition
LoopDoorState ==
    LET d0 == StateDescriptor("opened", NoStorage).d
        d1 == transition(d0, Coll(<<"opening", "opened">>), "opened").d
        d2 == on_state_exited(d1, "args", <<"opened">>, "f").d
        d3 == on_state_entered(d2, "args", <<"opened">>, "g").d
        d4 == on_state_exited(d3, "args", <<"opened">>, "f").d
        d5 == on_transition(d4, "args", <<1>>, "g").d
        d6 == on_transition(d5, "args", <<1>>, "g").d
    IN  set_name(d6, "state")

LoopDoor == [desc |-> LoopDoorState, disp |-> NoDispatcher]

OwnerClasses == {GarageDoor, HookedDoor, CustomDoor, LoopDoor}

\* the Stub of tests/unit/test_state.py, lines 83-89 (A, B, C are closed,
\* opening, opened): transitions and no callback
StubState ==
    LET d0 == StateDescriptor("closed", NoStorage).d
        d1 == transition(d0, One("closed"), "opening").d               \* to_b
        d2 == transition(d1, One("opening"), "opened").d               \* to_c
        d3 == transition(d2, One("opened"), "closed").d                \* to_a_from_c
        d4 == transition(d3, Coll(<<"closed", "opened">>), "opening").d
    IN  set_name(d4, "state")

Stub == [desc |-> StubState, disp |-> NoDispatcher]

\* a new instance: no private attribute yet; the class attribute the external
\* storage reads holds its default (test_state.py, line 39)
NewInstance == [priv |-> Unset, custom |-> "closed"]

(***************************************************************************)
(* Spec: instances of a finished owner class, one thread                   *)
(***************************************************************************)
InitRuntime(cls, insts, ths) ==
    /\ desc = cls.desc
    /\ disp = cls.disp
    /\ instances = insts
    /\ threads = ths
    /\ store = [i \in Instances |-> NewInstance]
    /\ stack = [th \in Threads |-> << >>]
    /\ op = [th \in Threads |-> NoOp]
    /\ log = << >>

Init == \E cls \in OwnerClasses : InitRuntime(cls, {"o1"}, {"t1"})

Next ==
    \/ \E th \in threads, i \in instances, k \in 1..Len(desc.transitions) :
           Invoke(th, i, k)
    \/ \E th \in threads : ForceSetRead(th)
    \/ \E th \in threads : ForceSetWrite(th)
    \/ \E th \in threads : FireExit(th)
    \/ \E th \in threads : FireEnter(th)
    \/ \E th \in threads : FireTransitionCallback(th)
    \/ \E th \in threads : Return(th)
    \/ \E th \in threads, i \in instances, a \in Args : Dispatch(th, i, a)
    \/ \E th \in threads, k \in 1..Len(desc.transitions) : HandlerCall(th, k)
    \/ \E th \in threads, v \in Values : HandlerReturn(th, v)
    \/ \E th \in threads : HandlerRaise(th)
    \/ \E th \in threads, i \in instances : GetState(th, i)
    \/ \E th \in threads, i \in instances, value \in AnyState : SetState(th, i, value)

Spec == Init /\ [][Next]_vars

(***************************************************************************)
(* SpecDecl: the definition of an owner class                              *)
(***************************************************************************)
\* how many transitions a class body declares, and how many callback
\* registrations it may already hold when it registers one more
MaxTransitions == 2
MaxRegistered == 2

Exists(d) == d # NoDescriptor

\* the arguments the class bodies of the model call the library with
InitialInputs == {None, "closed"}
StorageInputs == {NoStorage, AttrStorage}
TransitionInputs ==
    { [source |-> One("closed"), dest |-> "opening"],
      [source |-> Coll(<<"opening", "opened">>), dest |-> "closed"],
      [source |-> One("closed"), dest |-> "D"],
      [source |-> One("D"), dest |-> "closed"],
      [source |-> Coll(<<"opening", "D">>), dest |-> "closed"] }
StateTargetInputs ==
    { [shape |-> "bare", targets |-> << >>],
      [shape |-> "args", targets |-> << >>],
      [shape |-> "args", targets |-> <<"closed">>],
      [shape |-> "args", targets |-> <<"opening", "closed">>],
      [shape |-> "args", targets |-> <<"opening", "D">>] }
TransitionTargetInputs ==
    { [shape |-> "bare", targets |-> << >>],
      [shape |-> "args", targets |-> << >>],
      [shape |-> "args", targets |-> <<1>>],
      [shape |-> "args", targets |-> <<2, 2>>],
      [shape |-> "args", targets |-> <<1, ForeignTransition>>] }
OverloadInputs ==
    { <<"closed">>, <<"opened">>, <<"opening", "closed">>,
      <<"closing", "D">>, <<"closing", "closing">> }

\* how many callback registrations the descriptor holds
Registered(d) ==
    Cardinality({sc \in AnyState \X Callbacks : sc[2] \in d.enter_state_callbacks[sc[1]]})
    + Cardinality({sc \in AnyState \X Callbacks : sc[2] \in d.exit_state_callbacks[sc[1]]})
    + Cardinality(UNION {{<<n, m>> : m \in DOMAIN d.transitions[n].callbacks} :
                         n \in DOMAIN d.transitions})

\* a call of the class body: it returns or raises at once
Declared(th, name, arg, raised) ==
    /\ Idle(th)
    /\ op' = [op EXCEPT ![th] =
                IF raised # None
                THEN Raised(NewOp(name, None, 0, arg), raised)
                ELSE Returned(NewOp(name, None, 0, arg), None)]
    /\ UNCHANGED <<instances, threads, store, stack, log>>

\* state = StateDescriptor(DoorState, initial_state, state_storage)
Construct(th, initial_state, state_storage) ==
    /\ ~Exists(desc)
    /\ LET r == StateDescriptor(initial_state, state_storage)
       IN  /\ desc' = r.d
           /\ Declared(th, "StateDescriptor",
                  [initial_state |-> initial_state, state_storage |-> state_storage],
                  r.raised)
    /\ UNCHANGED disp

\* the class is created: __set_name__(owner, "state")
SetName(th) ==
    /\ Exists(desc)
    /\ desc.attr_name = None
    /\ desc' = set_name(desc, "state")
    /\ Declared(th, "__set_name__", None, None)
    /\ UNCHANGED disp

\* t = state.transition(source, dest)
DeclareTransition(th, in) ==
    /\ Exists(desc)
    /\ Len(desc.transitions) < MaxTransitions
    /\ LET r == transition(desc, in.source, in.dest)
       IN  /\ desc' = r.d
           /\ Declared(th, "declare", in, r.raised)
    /\ UNCHANGED disp

\* @state.on_transition / @state.on_transition(t, ...) applied to func
OnTransition(th, in, func) ==
    /\ Exists(desc)
    /\ Registered(desc) < MaxRegistered
    /\ LET r == on_transition(desc, in.shape, in.targets, func)
       IN  /\ desc' = r.d
           /\ Declared(th, "on_transition", [in |-> in, func |-> func], r.raised)
    /\ UNCHANGED disp

\* @state.on_state_exited / @state.on_state_exited(s, ...) applied to func
OnStateExited(th, in, func) ==
    /\ Exists(desc)
    /\ Registered(desc) < MaxRegistered
    /\ LET r == on_state_exited(desc, in.shape, in.targets, func)
       IN  /\ desc' = r.d
           /\ Declared(th, "on_state_exited", [in |-> in, func |-> func], r.raised)
    /\ UNCHANGED disp

\* @state.on_state_entered / @state.on_state_entered(s, ...) applied to func
OnStateEntered(th, in, func) ==
    /\ Exists(desc)
    /\ Registered(desc) < MaxRegistered
    /\ LET r == on_state_entered(desc, in.shape, in.targets, func)
       IN  /\ desc' = r.d
           /\ Declared(th, "on_state_entered", [in |-> in, func |-> func], r.raised)
    /\ UNCHANGED disp

\* @state.dispatch applied to the fallback
DeclareDispatch(th, fallback) ==
    /\ Exists(desc)
    /\ disp = NoDispatcher
    /\ disp' = Dispatcher(fallback)
    /\ Declared(th, "dispatch", fallback, None)
    /\ UNCHANGED desc

\* @method.overload(states...) applied to func
Overload(th, func, states) ==
    /\ disp # NoDispatcher
    /\ LET r == register(disp, func, states)
       IN  /\ disp' = r.dp
           /\ Declared(th, "register", [func |-> func, states |-> states], r.raised)
    /\ UNCHANGED desc

InitDecl ==
    /\ desc = NoDescriptor
    /\ disp = NoDispatcher
    /\ instances = {}
    /\ threads = {"t1"}
    /\ store = [i \in Instances |-> NewInstance]
    /\ stack = [th \in Threads |-> << >>]
    /\ op = [th \in Threads |-> NoOp]
    /\ log = << >>

NextDecl ==
    \/ \E th \in threads, i \in InitialInputs, s \in StorageInputs : Construct(th, i, s)
    \/ \E th \in threads : SetName(th)
    \/ \E th \in threads, in \in TransitionInputs : DeclareTransition(th, in)
    \/ \E th \in threads, in \in TransitionTargetInputs, func \in Callbacks :
           OnTransition(th, in, func)
    \/ \E th \in threads, in \in StateTargetInputs, func \in Callbacks :
           OnStateExited(th, in, func)
    \/ \E th \in threads, in \in StateTargetInputs, func \in Callbacks :
           OnStateEntered(th, in, func)

SpecDecl == InitDecl /\ [][NextDecl]_vars

(***************************************************************************)
(* SpecOverload: the class body declares a dispatched method and its       *)
(* overloads (the descriptor is the one GarageDoor constructs)             *)
(***************************************************************************)
InitOverload ==
    /\ desc = StateDescriptor("closed", NoStorage).d
    /\ disp = NoDispatcher
    /\ instances = {}
    /\ threads = {"t1"}
    /\ store = [i \in Instances |-> NewInstance]
    /\ stack = [th \in Threads |-> << >>]
    /\ op = [th \in Threads |-> NoOp]
    /\ log = << >>

NextOverload ==
    \/ \E th \in threads : DeclareDispatch(th, "F")
    \/ \E th \in threads, func \in {"G", "H"}, states \in OverloadInputs :
           Overload(th, func, states)

SpecOverload == InitOverload /\ [][NextOverload]_vars

(***************************************************************************)
(* SpecUnbound: a descriptor constructed outside a class body.  It is      *)
(* bound only when (and if) __set_name__ is called; until then its         *)
(* attr_name is None.  Transitions are declared on it and an instance      *)
(* uses it, and the dispatched method of the garage door, before and after.*)
(***************************************************************************)
InitUnbound ==
    /\ \E r \in {StateDescriptor("closed", NoStorage), StateDescriptor(None, AttrStorage)} :
           desc = r.d
    /\ disp = GarageDoorPushButton
    /\ instances = {"o1"}
    /\ threads = {"t1"}
    /\ store = [i \in Instances |-> NewInstance]
    /\ stack = [th \in Threads |-> << >>]
    /\ op = [th \in Threads |-> NoOp]
    /\ log = << >>

NextUnbound ==
    \/ \E th \in threads, in \in TransitionInputs : DeclareTransition(th, in)
    \/ \E th \in threads : SetName(th)
    \/ \E th \in threads, i \in instances, k \in 1..Len(desc.transitions) :
           Invoke(th, i, k)
    \/ \E th \in threads : ForceSetRead(th)
    \/ \E th \in threads : ForceSetWrite(th)
    \/ \E th \in threads : Return(th)
    \/ \E th \in threads, i \in instances : GetState(th, i)
    \/ \E th \in threads, i \in instances, value \in AnyState : SetState(th, i, value)
    \/ \E th \in threads, i \in instances, a \in Args : Dispatch(th, i, a)
    \/ \E th \in threads, k \in 1..Len(desc.transitions) : HandlerCall(th, k)
    \/ \E th \in threads, v \in Values : HandlerReturn(th, v)
    \/ \E th \in threads : HandlerRaise(th)

SpecUnbound == InitUnbound /\ [][NextUnbound]_vars

(***************************************************************************)
(* SpecRace: two threads, each invoking one transition on the same         *)
(* instance of Stub, with no lock around the calls.  A step of Next is a   *)
(* step of one thread, so the threads interleave between any two           *)
(* statements.                                                             *)
(***************************************************************************)
InitRace == InitRuntime(Stub, {"o1"}, {"t1", "t2"})

NextRace ==
    \/ \E th \in threads, i \in instances, k \in 1..Len(desc.transitions) :
           op[th] = NoOp /\ Invoke(th, i, k)
    \/ \E th \in threads : ForceSetRead(th)
    \/ \E th \in threads : ForceSetWrite(th)
    \/ \E th \in threads : Return(th)

SpecRace == InitRace /\ [][NextRace]_vars

(***************************************************************************)
(* SpecShared: two instances of one owner class, which share the class's   *)
(* descriptor, transitions and dispatcher                                  *)
(***************************************************************************)
InitShared ==
    \E cls \in {HookedDoor, CustomDoor} : InitRuntime(cls, {"o1", "o2"}, {"t1"})

SpecShared == InitShared /\ [][Next]_vars

(***************************************************************************)
(* What the properties below read                                          *)
(***************************************************************************)
\* what thread th's call has logged
MyLog(th) == SelectSeq(log, LAMBDA e : e.th = th)

\* the state of the call's instance when the call was made
PreState(o) == get_state(o.pre.desc, o.pre.store[o.inst]).value

\* the call has ended
Ended(th) == Idle(th) /\ op[th].status # "running"

IsCallback(e) == e.ev \in {"exit", "enter", "transition"}
NoReentry(th) == \A n \in DOMAIN log : log[n].th = th => log[n].beh # "call"
NoRaise(th) == \A n \in DOMAIN log : log[n].th = th => log[n].beh # "raise"

(***************************************************************************)
(* C1: a transition invoked while the current state is none of its sources *)
(* raises ImpossibleTransitionError, leaves the state as it was and calls  *)
(* no exit, enter or transition callback.                                  *)
(***************************************************************************)
C1_ImpossibleTransition ==
    \A th \in Threads :
        LET o == op[th]
        IN  (o.name = "transition"
             /\ PreState(o) \notin Range(desc.transitions[o.tr].source))
            => /\ o.status = "raised"
               /\ o.exc = "ImpossibleTransitionError"
               /\ store = o.pre.store
               /\ StateOf(o.inst) = PreState(o)
               /\ MyLog(th) = << >>
               /\ Idle(th)

\* rejected although callbacks wait on the state left and on the transition,
\* and after an earlier transition moved the instance
C1_Witness ==
    \E th \in Threads :
        LET o == op[th]
        IN  /\ o.name = "transition"
            /\ o.exc = "ImpossibleTransitionError"
            /\ store[o.inst].priv \in DoorState
            /\ desc.exit_state_callbacks[PreState(o)] # {}
            /\ desc.transitions[o.tr].callbacks # << >>
            /\ Len(desc.transitions[o.tr].source) > 1

InvocationEvents == {"write", "exit", "enter", "transition", "return"}

\* the invocations of thread th's call that have returned
ReturnedInvocations(th) ==
    {log[n].cid : n \in {m \in DOMAIN log : log[m].th = th /\ log[m].ev = "return"}}

Invocation(th, c) ==
    SelectSeq(log, LAMBDA e : e.th = th /\ e.cid = c /\ e.ev \in InvocationEvents)

Rank(ev) ==
    CASE ev = "write" -> 0
      [] ev = "exit" -> 1
      [] ev = "enter" -> 2
      [] ev = "transition" -> 3
      [] ev = "return" -> 4

Of(P, ev) == SelectSeq(P, LAMBDA e : e.ev = ev)
CallbacksOf(P, ev) == {Of(P, ev)[n].cb : n \in DOMAIN Of(P, ev)}

\* the write comes first, then the exit callbacks of s (each once), then the
\* enter callbacks of the destination (each once), then the transition's
\* callbacks as registered; each is called with (owner, s, destination)
InOrder(P) ==
    LET t == desc.transitions[P[1].tr]
        s == P[1].source
    IN  /\ P[1].ev = "write"
        /\ Len(Of(P, "write")) = 1
        /\ P[1].dest = t.dest
        /\ s \in Range(t.source)
        /\ \A a, b \in DOMAIN P : a < b => Rank(P[a].ev) <= Rank(P[b].ev)
        /\ CallbacksOf(P, "exit") = desc.exit_state_callbacks[s]
        /\ Len(Of(P, "exit")) = Cardinality(desc.exit_state_callbacks[s])
        /\ CallbacksOf(P, "enter") = desc.enter_state_callbacks[t.dest]
        /\ Len(Of(P, "enter")) = Cardinality(desc.enter_state_callbacks[t.dest])
        /\ Len(Of(P, "transition")) = Len(t.callbacks)
        /\ \A n \in DOMAIN t.callbacks : Of(P, "transition")[n].cb = t.callbacks[n]
        /\ \A n \in DOMAIN P :
               IsCallback(P[n]) => /\ P[n].inst = P[1].inst
                                   /\ P[n].source = s
                                   /\ P[n].dest = t.dest

\* a top-level invocation is the first of its call, on the call's instance,
\* from the state the instance was in
OfCall(th) ==
    op[th].name = "transition"
        => \A c \in ReturnedInvocations(th) :
               c = 1 => /\ Invocation(th, c)[1].tr = op[th].tr
                        /\ Invocation(th, c)[1].inst = op[th].inst
                        /\ Invocation(th, c)[1].source = PreState(op[th])

(***************************************************************************)
(* C3: on every successful transition from s to the destination the new    *)
(* state is written, then every exit callback of s is called, then every   *)
(* enter callback of the destination, then the transition's own callbacks  *)
(* in registration order; each receives (owner, s, destination), and each  *)
(* reads the owner's state as the destination.  (As stated: a callback     *)
(* that itself invokes a transition refutes the last part for the          *)
(* callbacks called after it.)                                             *)
(***************************************************************************)
C3_Original ==
    \A th \in Threads : \A c \in ReturnedInvocations(th) :
        LET P == Invocation(th, c)
        IN  /\ InOrder(P)
            /\ OfCall(th)
            /\ \A n \in DOMAIN P :
                   IsCallback(P[n]) => P[n].seen = desc.transitions[P[1].tr].dest

(***************************************************************************)
(* C3, amended: the order and the arguments as stated; each callback reads *)
(* the owner's state as the destination unless a callback called before    *)
(* it in the same invocation has itself invoked a transition.              *)
(***************************************************************************)
C3_Order ==
    \A th \in Threads : \A c \in ReturnedInvocations(th) :
        LET P == Invocation(th, c)
        IN  /\ InOrder(P)
            /\ OfCall(th)
            /\ \A n \in DOMAIN P :
                   (IsCallback(P[n]) /\ \A m \in 1..(n - 1) : P[m].beh # "call")
                   => P[n].seen = desc.transitions[P[1].tr].dest

\* a call has returned that called two exit callbacks, an enter callback and
\* two transition callbacks
C3_Witness ==
    \E th \in Threads :
        /\ op[th].name = "transition" /\ Ended(th) /\ op[th].status = "returned"
        /\ NoReentry(th)
        /\ LET P == Invocation(th, 1)
           IN  /\ Len(Of(P, "exit")) = 2
               /\ Len(Of(P, "enter")) = 1
               /\ Len(Of(P, "transition")) = 2
               /\ Of(P, "transition")[1].cb # Of(P, "transition")[2].cb

(***************************************************************************)
(* C4: whenever an invocation of a transition raises to its caller (an     *)
(* ImpossibleTransitionError, or an error raised by an exit, enter or      *)
(* transition callback), the owner's state is what it was before the       *)
(* invocation.                                                             *)
(***************************************************************************)
C4_RaisesBeforeMutation ==
    \A th \in Threads :
        LET o == op[th]
        IN  (o.name = "transition" /\ o.status = "raised")
            => /\ store[o.inst] = o.pre.store[o.inst]
               /\ StateOf(o.inst) = PreState(o)

(***************************************************************************)
(* C5: obj.state = value always raises AttributeError, whatever the        *)
(* current state and the value, leaves the state as it was and calls no    *)
(* callback.                                                               *)
(***************************************************************************)
C5_AssignmentRaises ==
    \A th \in Threads :
        LET o == op[th]
        IN  o.name = "set"
            => /\ o.status = "raised"
               /\ o.exc = "AttributeError"
               /\ store = o.pre.store
               /\ StateOf(o.inst) = PreState(o)
               /\ MyLog(th) = << >>
               /\ Idle(th)

\* an assignment of another member of the Enum, after a transition
C5_Witness ==
    \E th \in Threads :
        LET o == op[th]
        IN  /\ o.name = "set"
            /\ o.arg \in DoorState
            /\ o.arg # StateOf(o.inst)
            /\ StateOf(o.inst) # "closed"
            /\ desc.enter_state_callbacks[o.arg] # {}

(***************************************************************************)
(* C7: dispatch reads the owner's state and calls one handler, the         *)
(* overload registered for that state if there is one and the fallback     *)
(* otherwise, with (owner, arg); it returns what the handler returned, and *)
(* changes the state only through a transition the handler invokes.        *)
(***************************************************************************)
C7_Dispatch ==
    \A th \in Threads :
        LET o == op[th]
            L == MyLog(th)
            H == SelectSeq(L, LAMBDA e : e.ev = "handler")
            overload == disp.dispatch_table[PreState(o)]
        IN  o.name = "dispatch"
            => /\ Len(H) = 1
               /\ L[1] = H[1]
               /\ H[1].cb = IF overload # None THEN overload ELSE disp.fallback
               /\ H[1].inst = o.inst
               /\ H[1].arg = o.arg
               /\ H[1].seen = PreState(o)
               /\ o.status = "returned"
                  => /\ Last(L).ev = "handler_return"
                     /\ o.value = Last(L).val
               /\ Of(L, "write") = << >> => store = o.pre.store

\* the overload of a state has returned a value, no transition invoked
C7_Witness ==
    \E th \in Threads :
        LET o == op[th]
        IN  /\ o.name = "dispatch" /\ o.status = "returned"
            /\ disp.dispatch_table[PreState(o)] = "H"
            /\ o.value = "v2"
            /\ o.arg = "a2"
            /\ Len(MyLog(th)) = 2

(***************************************************************************)
(* C10: with the default storage and no write yet, a read returns the      *)
(* initial state; reads, dispatches whose handler invokes no transition,   *)
(* failed transitions and rejected assignments leave the state as it was,  *)
(* so the state last reached by a successful transition is what is read.   *)
(***************************************************************************)
C10_ReadsAndFrames ==
    \A th \in Threads :
        LET o == op[th]
        IN  /\ (o.name = "get" /\ desc.state_storage = NoStorage
                /\ store[o.inst].priv = Unset)
               => (o.status = "returned" /\ o.value = desc.initial_state)
            /\ o.name = "get" => (o.value = StateOf(o.inst) /\ store = o.pre.store)
            /\ o.name = "set" => store = o.pre.store
            /\ (o.name = "dispatch" /\ Of(MyLog(th), "write") = << >>)
               => store = o.pre.store
            /\ (o.name = "transition" /\ o.status = "raised")
               => StateOf(o.inst) = PreState(o)

(***************************************************************************)
(* C6: constructing a descriptor with both an initial state and an         *)
(* external storage, or with neither, raises; construction succeeds only   *)
(* when exactly one of the two is supplied.                                *)
(***************************************************************************)
C6_ExactlyOne ==
    \A th \in Threads :
        LET o == op[th]
        IN  o.name = "StateDescriptor"
            => (o.status = "returned"
                <=> ((o.arg.initial_state = None) # (o.arg.state_storage = None)))

(***************************************************************************)
(* C8: registering an overload for a state outside the Enum, or for a      *)
(* state that already has a handler, raises ValueError; a handler once     *)
(* registered for a state is never replaced.                               *)
(***************************************************************************)
C8_RegisterRejects ==
    \A th \in Threads :
        LET o == op[th]
            before == o.pre.disp.dispatch_table
        IN  /\ o.name = "register"
               => LET ss == o.arg.states
                  IN  (\E n \in DOMAIN ss :
                          \/ ss[n] \notin DoorState
                          \/ before[ss[n]] # None
                          \/ \E m \in 1..(n - 1) : ss[m] = ss[n])
                      => (o.status = "raised" /\ o.exc = "ValueError")
            /\ \A s \in AnyState :
                  /\ before[s] # None => disp.dispatch_table[s] = before[s]
                  /\ s \notin DoorState => disp.dispatch_table[s] = None

\* another handler was offered for a state that has one
C8_Witness ==
    \E th \in Threads :
        LET o == op[th]
        IN  /\ o.name = "register"
            /\ o.status = "raised"
            /\ \E n \in DOMAIN o.arg.states :
                  /\ o.arg.states[n] \in DoorState
                  /\ o.pre.disp.dispatch_table[o.arg.states[n]] \notin {None, o.arg.func}
                  /\ disp.dispatch_table[o.arg.states[n]] # o.arg.func

(***************************************************************************)
(* C9: declaring a transition whose destination, single source, or any one *)
(* element of its source collection is outside the Enum raises ValueError  *)
(* at the declaration, before any instance exists, and adds no transition  *)
(* to the descriptor's list.                                               *)
(***************************************************************************)
C9_DeclarationRejects ==
    \A th \in Threads :
        LET o == op[th]
        IN  o.name = "declare"
            => ((\/ o.arg.dest \notin DoorState
                 \/ \E n \in DOMAIN o.arg.source.elems :
                        o.arg.source.elems[n] \notin DoorState)
                => /\ o.status = "raised"
                   /\ o.exc = "ValueError"
                   /\ desc = o.pre.desc
                   /\ instances = {})

\* a collection whose second element is foreign was rejected, after a
\* transition was declared
C9_Witness ==
    \E th \in Threads :
        LET o == op[th]
        IN  /\ o.name = "declare"
            /\ o.status = "raised"
            /\ o.arg.source.coll
            /\ o.arg.source.elems[1] \in DoorState
            /\ o.arg.dest \in DoorState
            /\ Len(desc.transitions) = 1

(***************************************************************************)
(* A descriptor is unconfigured while it has neither an attribute name nor *)
(* an external storage                                                     *)
(***************************************************************************)
Unconfigured(d) == d.attr_name = None /\ d.state_storage = NoStorage

(***************************************************************************)
(* C11: on an unconfigured descriptor, reading the state, committing a     *)
(* state and creating a transition each fail with a configuration error.   *)
(* (As stated: creating a transition succeeds.)                            *)
(***************************************************************************)
C11_Original ==
    \A th \in Threads :
        LET o == op[th]
        IN  (o.name \in {"get", "transition", "declare"} /\ Unconfigured(o.pre.desc))
            => /\ o.status = "raised"
               /\ o.exc = "ValueError"

(***************************************************************************)
(* C11, amended: on an unconfigured descriptor, reading the state and      *)
(* invoking a transition raise ValueError and leave the instance as it     *)
(* was, and a commit would raise ValueError and write nothing; creating a  *)
(* transition is not refused for that: it raises only for a state outside  *)
(* the Enum and otherwise adds the transition to the descriptor.           *)
(***************************************************************************)
C11_Unconfigured ==
    \A th \in Threads :
        LET o == op[th]
        IN  Unconfigured(o.pre.desc)
            => /\ o.name \in {"get", "transition"}
                  => /\ o.status = "raised"
                     /\ o.exc = "ValueError"
                     /\ store = o.pre.store
                     /\ Idle(th)
                     /\ \A s \in DoorState :
                            /\ write_state(o.pre.desc, store[o.inst], s).raised = "ValueError"
                            /\ write_state(o.pre.desc, store[o.inst], s).inst = store[o.inst]
               /\ o.name = "declare"
                  => /\ o.status = "raised"
                        <=> \E n \in DOMAIN o.arg.source.elems \cup {0} :
                               ~InAllStates(IF n = 0 THEN o.arg.dest
                                            ELSE o.arg.source.elems[n])
                     /\ o.status = "returned"
                        => desc.transitions =
                               Append(o.pre.desc.transitions,
                                      NewTransition(o.arg.source, o.arg.dest))

\* a transition created on the unconfigured descriptor has been invoked
C11_Witness ==
    \E th \in Threads :
        LET o == op[th]
        IN  /\ o.name = "transition"
            /\ Unconfigured(o.pre.desc)
            /\ o.status = "raised"
            /\ Len(desc.transitions) = 2

(***************************************************************************)
(* What a registration left in the descriptor                              *)
(***************************************************************************)
IsHook(o) == o.name \in {"on_state_exited", "on_state_entered"}

HookTable(d, name) ==
    IF name = "on_state_exited" THEN d.exit_state_callbacks ELSE d.enter_state_callbacks

\* the registering call was made with no target: @state.on_x or @state.on_x()
NoTargets(o) == o.arg.in.shape = "bare" \/ o.arg.in.targets = << >>

\* the function is in the table of each state of T, and nothing else changed
HookAdded(o, T) ==
    /\ \A s \in AnyState :
           HookTable(desc, o.name)[s] =
               IF s \in T
               THEN HookTable(o.pre.desc, o.name)[s] \cup {o.arg.func}
               ELSE HookTable(o.pre.desc, o.name)[s]
    /\ desc.transitions = o.pre.desc.transitions
    /\ o.name = "on_state_exited"
           => desc.enter_state_callbacks = o.pre.desc.enter_state_callbacks
    /\ o.name = "on_state_entered"
           => desc.exit_state_callbacks = o.pre.desc.exit_state_callbacks

\* the function is appended to the callbacks of each transition of T (and to
\* no other), after the callbacks the transition had
TransitionAdded(o, T) ==
    /\ Len(desc.transitions) = Len(o.pre.desc.transitions)
    /\ \A n \in DOMAIN desc.transitions :
           LET new == desc.transitions[n].callbacks
               old == o.pre.desc.transitions[n].callbacks
           IN  /\ desc.transitions[n].source = o.pre.desc.transitions[n].source
               /\ desc.transitions[n].dest = o.pre.desc.transitions[n].dest
               /\ Len(new) >= Len(old)
               /\ SubSeq(new, 1, Len(old)) = old
               /\ \A m \in (Len(old) + 1)..Len(new) : new[m] = o.arg.func
               /\ n \in T <=> Len(new) > Len(old)
    /\ desc.exit_state_callbacks = o.pre.desc.exit_state_callbacks
    /\ desc.enter_state_callbacks = o.pre.desc.enter_state_callbacks

(***************************************************************************)
(* C12: a registration with an explicit, non-empty list of targets         *)
(* registers the callback on exactly the listed targets; a registration    *)
(* with no explicit target registers it on every state of the Enum (state  *)
(* hooks) or on every transition declared so far (on_transition); a        *)
(* transition declared later does not receive it.                          *)
(***************************************************************************)
C12_Registration ==
    \A th \in Threads :
        LET o == op[th]
        IN  /\ (IsHook(o) /\ o.status = "returned")
               => HookAdded(o, IF NoTargets(o) THEN DoorState
                               ELSE Range(o.arg.in.targets))
            /\ (o.name = "on_transition" /\ o.status = "returned")
               => TransitionAdded(o, IF NoTargets(o)
                                     THEN DOMAIN o.pre.desc.transitions
                                     ELSE Range(o.arg.in.targets))
            /\ (o.name = "declare" /\ o.status = "returned")
               => Last(desc.transitions).callbacks = << >>

(***************************************************************************)
(* C13: registering a callback on a transition the descriptor did not      *)
(* create (on_transition) or on a state outside the Enum (on_state_entered,*)
(* on_state_exited) raises ValueError from the registering call itself and *)
(* registers the callback on no target.                                    *)
(***************************************************************************)
ForeignTarget(o) ==
    /\ o.arg.in.shape = "args"
    /\ \E n \in DOMAIN o.arg.in.targets :
           IF IsHook(o)
           THEN ~InAllStates(o.arg.in.targets[n])
           ELSE o.arg.in.targets[n] \notin DOMAIN o.pre.desc.transitions

C13_ForeignTargetRejected ==
    \A th \in Threads :
        LET o == op[th]
        IN  (IsHook(o) \/ o.name = "on_transition")
            => /\ ForeignTarget(o) <=> o.status = "raised"
               /\ o.status = "raised"
                  => /\ o.exc = "ValueError"
                     /\ desc = o.pre.desc

\* rejected for its second target, the first being a transition of the
\* descriptor that has a callback already; and a state hook rejected likewise
C13_Witness ==
    \E th \in Threads :
        LET o == op[th]
        IN  /\ o.name = "on_transition"
            /\ o.status = "raised"
            /\ o.arg.in.targets = <<1, ForeignTransition>>
            /\ Len(desc.transitions) >= 1
            /\ desc.transitions[1].callbacks # << >>

(***************************************************************************)
(* C14: the read, the check and the write of a transition are not atomic.  *)
(* Every invocation that writes has passed its check against the state it  *)
(* read; the state differs from that read, and a destination is written    *)
(* while the current state is none of the transition's sources, only when  *)
(* another thread has written the instance since; and two threads reach    *)
(* that outcome (C14_Witness).                                             *)
(***************************************************************************)
WritesOf(th, i) ==
    {n \in DOMAIN log : log[n].ev = "write" /\ log[n].th = th /\ log[n].inst = i}

\* the write logged at n was made while the state was none of the sources
OutOfSource(n) == log[n].seen \notin Range(desc.transitions[log[n].tr].source)

C14_ReadCheckWriteRace ==
    /\ \A th \in Threads : \A n \in DOMAIN stack[th] :
           LET fr == stack[th][n]
           IN  /\ fr.state \in Range(desc.transitions[fr.tr].source)
               /\ (fr.pc \in {"force_set", "write"} /\ StateOf(fr.inst) # fr.state)
                  => \E th2 \in threads \ {th} : \E m \in WritesOf(th2, fr.inst) :
                         log[m].dest = StateOf(fr.inst)
    /\ \A n \in DOMAIN log :
           (log[n].ev = "write" /\ OutOfSource(n))
           => \E th2 \in threads \ {log[n].th} : \E m \in WritesOf(th2, log[n].inst) :
                  m < n /\ log[m].dest = log[n].seen

\* both threads read the same state, both passed the check and both have
\* returned; the second write found a state that is none of its sources
C14_Witness ==
    \E th1, th2 \in Threads :
        /\ th1 # th2
        /\ op[th1].name = "transition" /\ op[th1].status = "returned"
        /\ op[th2].name = "transition" /\ op[th2].status = "returned"
        /\ op[th1].inst = op[th2].inst
        /\ PreState(op[th1]) = PreState(op[th2])
        /\ \E m \in WritesOf(th1, op[th1].inst), n \in WritesOf(th2, op[th2].inst) :
               m < n /\ OutOfSource(n) /\ log[n].seen = log[m].dest

(***************************************************************************)
(* C15: a transition whose sources include its destination d, invoked      *)
(* while the state is d, is not refused: it writes d and calls the exit    *)
(* callbacks of d, then the enter callbacks of d, each with (owner, d, d); *)
(* when it returns it has called every one of them.                        *)
(***************************************************************************)
\* the invocations of thread th's call that have written
Invocations(th) ==
    {log[n].cid : n \in {m \in DOMAIN log : log[m].th = th /\ log[m].ev = "write"}}

\* the invocation the caller made has gone past its write (or has ended)
PastWrite(th) == Idle(th) \/ stack[th][1].pc \notin {"force_set", "write"}

C15_SelfLoopFires ==
    \A th \in Threads :
        LET o == op[th]
        IN  /\ (o.name = "transition"
                /\ PreState(o) = desc.transitions[o.tr].dest
                /\ PreState(o) \in Range(desc.transitions[o.tr].source)
                /\ PastWrite(th))
               => /\ 1 \in Invocations(th)
                  /\ Invocation(th, 1)[1].source = PreState(o)
                  /\ Invocation(th, 1)[1].dest = PreState(o)
            /\ \A c \in Invocations(th) :
                   LET P == Invocation(th, c)
                       d == P[1].dest
                   IN  P[1].source = d
                       => /\ \A a, b \in DOMAIN P :
                                 a < b => Rank(P[a].ev) <= Rank(P[b].ev)
                          /\ \A n \in DOMAIN P :
                                 IsCallback(P[n]) => /\ P[n].inst = P[1].inst
                                                     /\ P[n].source = d
                                                     /\ P[n].dest = d
                          /\ CallbacksOf(P, "exit") \subseteq desc.exit_state_callbacks[d]
                          /\ CallbacksOf(P, "enter") \subseteq desc.enter_state_callbacks[d]
                          /\ c \in ReturnedInvocations(th)
                             => /\ CallbacksOf(P, "exit") = desc.exit_state_callbacks[d]
                                /\ CallbacksOf(P, "enter") = desc.enter_state_callbacks[d]
                                /\ Len(Of(P, "exit")) = Cardinality(desc.exit_state_callbacks[d])
                                /\ Len(Of(P, "enter")) = Cardinality(desc.enter_state_callbacks[d])

\* the door was opened and is opened again: its exit callback and its enter
\* callback have been called, in that order, and the call has returned
C15_Witness ==
    \E th \in Threads :
        LET o == op[th]
        IN  /\ o.name = "transition" /\ Ended(th) /\ o.status = "returned"
            /\ PreState(o) = "opened"
            /\ desc.transitions[o.tr].dest = "opened"
            /\ NoReentry(th)
            /\ Invocation(th, 1)[2].ev = "exit"
            /\ Invocation(th, 1)[3].ev = "enter"
            /\ Invocation(th, 1)[3].source = "opened"
            /\ Invocation(th, 1)[3].dest = "opened"

(***************************************************************************)
(* C16: registering a callback again on a state it is registered on, in    *)
(* the enter or the exit table, changes nothing, and the callback is       *)
(* called once per change into (out of) that state; registering a callback *)
(* again on a transition adds it again, and it is called once per          *)
(* registration on each successful invocation of the transition.           *)
(***************************************************************************)
C16_DuplicateRegistration ==
    /\ \A s \in DoorState, f \in Callbacks :
           /\ f \in desc.exit_state_callbacks[s]
              => on_state_exited(desc, "args", <<s>>, f).d = desc
           /\ f \in desc.enter_state_callbacks[s]
              => on_state_entered(desc, "args", <<s>>, f).d = desc
           /\ on_state_exited(desc, "args", <<s, s>>, f).d
                  = on_state_exited(desc, "args", <<s>>, f).d
           /\ on_state_entered(desc, "args", <<s, s>>, f).d
                  = on_state_entered(desc, "args", <<s>>, f).d
    /\ \A k \in DOMAIN desc.transitions, f \in Callbacks :
           /\ on_transition(desc, "args", <<k>>, f).d.transitions[k].callbacks
                  = Append(desc.transitions[k].callbacks, f)
           /\ on_transition(desc, "args", <<k, k>>, f).d.transitions[k].callbacks
                  = Append(Append(desc.transitions[k].callbacks, f), f)
    /\ \A th \in Threads : \A c \in ReturnedInvocations(th) :
           LET P == Invocation(th, c)
               t == desc.transitions[P[1].tr]
           IN  /\ \A f \in desc.exit_state_callbacks[P[1].source] :
                      Len(SelectSeq(Of(P, "exit"), LAMBDA e : e.cb = f)) = 1
               /\ \A f \in desc.enter_state_callbacks[P[1].dest] :
                      Len(SelectSeq(Of(P, "enter"), LAMBDA e : e.cb = f)) = 1
               /\ \A f \in Callbacks :
                      Len(SelectSeq(Of(P, "transition"), LAMBDA e : e.cb = f))
                          = Cardinality({n \in DOMAIN t.callbacks : t.callbacks[n] = f})

\* on the door that registers f twice on leaving opened and g twice on its
\* first transition, that transition has returned: f was called once on
\* leaving, g twice as the transition's callback
C16_Witness ==
    \E th \in Threads :
        LET o == op[th]
            P == Invocation(th, 1)
        IN  /\ desc = LoopDoorState
            /\ o.name = "transition" /\ Ended(th) /\ o.status = "returned"
            /\ o.tr = 1
            /\ PreState(o) = "opened"
            /\ NoReentry(th)
            /\ Len(SelectSeq(Of(P, "exit"), LAMBDA e : e.cb = "f")) = 1
            /\ Len(SelectSeq(Of(P, "transition"), LAMBDA e : e.cb = "g")) = 2

(***************************************************************************)
(* C17: the state is kept in each instance and the descriptor is shared:   *)
(* a transition invoked on one instance, whether it returns or raises,     *)
(* leaves what is read from every other instance as it was, and every      *)
(* callback it calls is given the instance it was invoked on.              *)
(***************************************************************************)
C17_PerInstance ==
    \A th \in Threads :
        LET o == op[th]
        IN  o.name = "transition"
            => /\ \A j \in instances \ {o.inst} :
                      /\ store[j] = o.pre.store[j]
                      /\ StateOf(j) = get_state(o.pre.desc, o.pre.store[j]).value
               /\ \A n \in DOMAIN MyLog(th) : MyLog(th)[n].inst = o.inst
               /\ \A n \in DOMAIN stack[th] : stack[th][n].inst = o.inst
               /\ desc = o.pre.desc

\* a transition of the second instance has returned, its callbacks called,
\* while the first instance is in another state that a transition of its own
\* left it in
C17_Witness ==
    \E th \in Threads :
        LET o == op[th]
        IN  /\ o.name = "transition" /\ Ended(th) /\ o.status = "returned"
            /\ o.inst = "o2"
            /\ store["o1"] # NewInstance
            /\ StateOf("o1") # StateOf("o2")
            /\ StateOf("o1") # PreState(o)
            /\ \E n \in DOMAIN log : IsCallback(log[n])

(***************************************************************************)
(* C18: with the default storage (the attribute named after the            *)
(* descriptor) and an initial state that is a member of the Enum, whatever *)
(* transitions were declared and invoked, methods dispatched, reads made   *)
(* and assignments rejected, the state of an instance is a member of the   *)
(* Enum: the initial state, or the destination of a declared transition.   *)
(***************************************************************************)
C18_StateInStateSet ==
    (desc.state_storage = NoStorage /\ desc.attr_name # None
     /\ InAllStates(desc.initial_state))
    => \A i \in instances :
           /\ get_state(desc, store[i]).raised = None
           /\ InAllStates(StateOf(i))
           /\ \/ StateOf(i) = desc.initial_state
              \/ \E k \in DOMAIN desc.transitions : StateOf(i) = desc.transitions[k].dest

\* the assignment of a value outside the Enum has just been rejected, on an
\* instance that transitions have taken away from the initial state
C18_Witness ==
    \E th \in Threads :
        LET o == op[th]
        IN  /\ o.name = "set"
            /\ o.arg = "D"
            /\ desc.state_storage = NoStorage
            /\ desc.attr_name # None
            /\ StateOf(o.inst) = "opening"
            /\ desc.initial_state = "closed"
            /\ Len(desc.transitions) = 2

LastWrite(n) ==
    LET W == {m \in 1..n : log[m].ev = "write" /\ log[m].inst = log[n].inst}
    IN  CHOOSE m \in W : \A k \in W : k <= m

C20_RegisterAllOrNothing ==
    \A th \in Threads :
        LET o == op[th]
        IN  (o.name = "register" /\ o.status = "raised")
            => disp = o.pre.disp
====
